---- MODULE Spec2Model ----
(***************************************************************************)
(* Model of ics-to-timew: parse_iso8601_periods.parse, the parse_ics       *)
(* module (standardizeDatetime, datetimeToZulu, RepeatedEvent, Event,      *)
(* Calendar) and the conversion loop of import_ics_timew.                  *)
(*                                                                         *)
(* Representation.                                                         *)
(*  - A Python value that may be None is a sequence of length 0 (None) or  *)
(*    1 (the value).                                                       *)
(*  - Free text (summary, tags, period expressions) is a sequence of       *)
(*    one-character strings.                                               *)
(*  - A naive datetime is an integer: seconds of wall-clock time since     *)
(*    Monday 2024-10-28 00:00:00; an aware UTC datetime, and the string    *)
(*    strftime('%Y%m%dT%H%M%SZ') prints for it, is the integer of its      *)
(*    UTC wall clock; a timedelta is an integer number of seconds.         *)
(*  - A date/time token of the document is [kind, tzid, t, z]: the         *)
(*    qualifier before the colon ("plain": none, "date": VALUE=DATE,       *)
(*    "tzid": TZID=<tzid>), the wall clock the payload spells and whether   *)
(*    the payload ends in Z.                                               *)
(*  - A rule expression (the value of RRULE or EXRULE) is a record with    *)
(*    one optional value per KEY; a multi-value field is the sequence of   *)
(*    its comma-separated items.                                           *)
(*  - An event block is a record with one field per property line.         *)
(***************************************************************************)
EXTENDS Integers, Sequences, FiniteSets, TLC

None == <<>>
Some(v) == <<v>>

Hour == 60 * 60
Day == 24 * Hour
Week == 7 * Day

Min(S) == CHOOSE m \in S : \A n \in S : m <= n
Max(S) == CHOOSE m \in S : \A n \in S : m >= n

(***************************************************************************)
(* parse_iso8601_periods.parse                                             *)
(***************************************************************************)
Digits == <<"0", "1", "2", "3", "4", "5", "6", "7", "8", "9">>
IsDigit(c) == \E v \in 1..10 : Digits[v] = c
DigitVal(c) == (CHOOSE v \in 1..10 : Digits[v] = c) - 1

\* float( m.group( 1 ) ) of a group of decimal digits
RECURSIVE float(_)
float(ds) ==
    IF ds = <<>> THEN 0
    ELSE 10 * float(SubSeq(ds, 1, Len(ds) - 1)) + DigitVal(ds[Len(ds)])

\* s[i..j] is matched by (\d+) and followed by the designator d
DigitRun(s, i, j, d) ==
    /\ i <= j
    /\ j < Len(s)
    /\ \A k \in i..j : IsDigit(s[k])
    /\ s[j + 1] = d

\* group 1 of re.search( '^P[^T]*?(\d+)<d>', s ): the lazy [^T]*? stops at the
\* first position where the digits and the designator follow
DateGroup(s, d) ==
    LET starts == {i \in 2..Len(s) :
                      /\ s[1] = "P"
                      /\ \A k \in 2..(i - 1) : s[k] # "T"
                      /\ \E j \in i..Len(s) : DigitRun(s, i, j, d)}
    IN IF starts = {} THEN None
       ELSE LET i == Min(starts)
                j == CHOOSE j \in i..Len(s) : DigitRun(s, i, j, d)
            IN Some(SubSeq(s, i, j))

\* group 1 of re.search( '^P.*T.*?(\d+)<d>', s ): the greedy .* takes the last T
\* after which the rest matches, the lazy .*? the first digits after it
TimeGroup(s, d) ==
    LET after(p) == {i \in (p + 1)..Len(s) : \E j \in i..Len(s) : DigitRun(s, i, j, d)}
        ts == {p \in 2..Len(s) : s[1] = "P" /\ s[p] = "T" /\ after(p) # {}}
    IN IF ts = {} THEN None
       ELSE LET i == Min(after(Max(ts)))
                j == CHOOSE j \in i..Len(s) : DigitRun(s, i, j, d)
            IN Some(SubSeq(s, i, j))

GroupValue(m) == IF m = None THEN 0 ELSE float(m[1])

parse(periodStr) ==
    LET weeks == GroupValue(DateGroup(periodStr, "W"))
        days == GroupValue(DateGroup(periodStr, "D"))
        hours == GroupValue(TimeGroup(periodStr, "H"))
        minutes == GroupValue(TimeGroup(periodStr, "M"))
        seconds == GroupValue(TimeGroup(periodStr, "S"))
    IN days * Day + seconds + minutes * 60 + hours * Hour + weeks * Week

(***************************************************************************)
(* pytz zones, as parse_ics uses them.  A zone is its list of periods      *)
(* [from, to) of UTC time with the UTC offset and the DST flag in force.   *)
(* America/New_York leaves daylight-saving time on 2024-11-03 06:00 UTC.   *)
(***************************************************************************)
Zones == {"UTC", "America/New_York", "Asia/Tokyo"}

DistantPast == -(1000 * Day)
DistantFuture == 1000 * Day
FallBack == 6 * Day + 6 * Hour

tzinfos(zone) ==
    CASE zone = "UTC" ->
           <<[from |-> DistantPast, to |-> DistantFuture, utcoffset |-> 0, dst |-> FALSE]>>
      [] zone = "Asia/Tokyo" ->
           <<[from |-> DistantPast, to |-> DistantFuture, utcoffset |-> 9 * Hour, dst |-> FALSE]>>
      [] zone = "America/New_York" ->
           <<[from |-> DistantPast, to |-> FallBack, utcoffset |-> -(4 * Hour), dst |-> TRUE],
             [from |-> FallBack, to |-> DistantFuture, utcoffset |-> -(5 * Hour), dst |-> FALSE]>>

\* pytz.utc.localize( dt ).astimezone( timezone ).replace( tzinfo = None )
astimezone(utc, zone) ==
    LET tz == tzinfos(zone)
        k == CHOOSE k \in DOMAIN tz : tz[k].from <= utc /\ utc < tz[k].to
    IN utc + tz[k].utcoffset

\* the periods in which the wall clock dt is shown
Possible(dt, zone) ==
    LET tz == tzinfos(zone)
    IN {k \in DOMAIN tz : tz[k].from <= dt - tz[k].utcoffset /\ dt - tz[k].utcoffset < tz[k].to}

\* timezone.localize( dt ), is_dst = False: the one period showing dt; of two
\* (the repeated hour) the one that is not DST; of none (the skipped hour) the
\* period in force six hours earlier.  The result is the UTC offset applied.
localize(dt, zone) ==
    LET tz == tzinfos(zone)
        pick(S) == IF Cardinality(S) = 1 THEN CHOOSE k \in S : TRUE
                   ELSE CHOOSE k \in S : ~tz[k].dst
        poss == Possible(dt, zone)
    IN IF poss # {} THEN tz[pick(poss)].utcoffset
       ELSE tz[pick(Possible(dt - 6 * Hour, zone))].utcoffset

standardizeDatetime(timeStr, timezone) ==
    IF timeStr = None THEN None
    ELSE LET payload == timeStr[1]
         IN IF payload.z THEN Some(astimezone(payload.t, timezone))
            ELSE Some(payload.t)

datetimeToZulu(datetime, timezone) ==
    IF datetime = None THEN None
    ELSE Some(datetime[1] - localize(datetime[1], timezone))

(***************************************************************************)
(* Rule expressions and RepeatedEvent                                      *)
(***************************************************************************)
\* Python truth of an optional string / of an optional sequence
TruthyStr(o) == o # None /\ o[1] # ""
Truthy(o) == o # None /\ o[1] # <<>>

getRruleMatch(rruleStr, name) == rruleStr[name]

dateutil_ids ==
    [k \in {"YEARLY", "MONTHLY", "WEEKLY", "DAILY", "HOURLY", "MINUTELY", "SECONDLY",
            "MO", "TU", "WE", "TH", "FR", "SA", "SU"} |->
        CASE k = "YEARLY" -> 0 [] k = "MONTHLY" -> 1 [] k = "WEEKLY" -> 2
          [] k = "DAILY" -> 3 [] k = "HOURLY" -> 4 [] k = "MINUTELY" -> 5
          [] k = "SECONDLY" -> 6
          [] k = "MO" -> 0 [] k = "TU" -> 1 [] k = "WE" -> 2 [] k = "TH" -> 3
          [] k = "FR" -> 4 [] k = "SA" -> 5 [] k = "SU" -> 6]

\* The result of a call that may raise: exc names the exception ("" for none).
Returned(v) == [exc |-> "", val |-> v]
Raised(e) == [exc |-> e, val |-> None]

getDateutilId(obj) ==
    IF ~TruthyStr(obj) THEN Returned(None)
    ELSE IF obj[1] \in DOMAIN dateutil_ids THEN Returned(Some(dateutil_ids[obj[1]]))
    ELSE Raised("KeyError")

getDateutilIds(objs) ==
    IF ~Truthy(objs) THEN Returned(None)
    ELSE IF \E k \in DOMAIN objs[1] : objs[1][k] \notin DOMAIN dateutil_ids
         THEN Raised("KeyError")
    ELSE Returned(Some([k \in DOMAIN objs[1] |-> dateutil_ids[objs[1][k]]]))

\* The string a multi-value field was written as: the item itself when there is
\* one, and a string holding commas (no key of dateutil_ids) when there are more.
Joined(objs) ==
    IF objs = None THEN None
    ELSE IF objs[1] = <<>> THEN Some("")
    ELSE IF Len(objs[1]) = 1 THEN Some(objs[1][1])
    ELSE Some(",")

(***************************************************************************)
(* dateutil.rrule, for the frequencies DAILY and WEEKLY at interval 1, with *)
(* byweekday, count and until: the occurrences keep dtstart's time of day. *)
(***************************************************************************)
weekday(t) == (t \div Day) % 7

OnDay(rule, t) ==
    IF rule.byweekday # None
    THEN \E k \in DOMAIN rule.byweekday[1] : rule.byweekday[1][k] = weekday(t)
    ELSE rule.freq = Some(dateutil_ids["WEEKLY"]) => weekday(t) = weekday(rule.dtstart[1])

\* The occurrences from t on: n is the count left (-1: no count), limit the
\* last instant allowed (None: no limit).
RECURSIVE rruleIter(_, _, _, _)
rruleIter(rule, t, n, limit) ==
    IF n = 0 \/ (limit # None /\ t > limit[1]) THEN <<>>
    ELSE IF OnDay(rule, t)
         THEN <<t>> \o rruleIter(rule, t + Day, IF n > 0 THEN n - 1 ELSE n, limit)
    ELSE rruleIter(rule, t + Day, n, limit)

Bounded(rule) == rule.count # None \/ rule.until # None

\* list( rule ), of a rule that is Bounded
list(rule) ==
    rruleIter(rule, rule.dtstart[1], IF rule.count = None THEN -1 ELSE rule.count[1],
              rule.until)

\* whether iterating rule yields t; decided by the occurrences up to t
Yields(rule, t) ==
    LET upto == IF rule.until = None THEN t ELSE Min({t, rule.until[1]})
        occ == rruleIter(rule, rule.dtstart[1],
                         IF rule.count = None THEN -1 ELSE rule.count[1], Some(upto))
    IN \E k \in DOMAIN occ : occ[k] = t

NoRule ==
    [exc |-> "", until |-> None, count |-> None, rule |-> None,
     datetime_until |-> None, formatted_until |-> None, listed |-> FALSE]

\* the by-field, frequency and week-start arguments of dateutil.rrule.rrule
RuleArgs(r) ==
    [freq |-> getDateutilId(getRruleMatch(r, "FREQ")),
     wkst |-> getDateutilId(IF TruthyStr(getRruleMatch(r, "WKST"))
                            THEN getRruleMatch(r, "WKST") ELSE Some("MO")),
     bysetpos |-> getDateutilIds(getRruleMatch(r, "BYMONTH")),
     bymonth |-> getDateutilIds(getRruleMatch(r, "BYMONTH")),
     bymonthday |-> getDateutilIds(getRruleMatch(r, "BYMONTHDAY")),
     byyearday |-> getDateutilIds(getRruleMatch(r, "BYYEARDAY")),
     byweekno |-> getDateutilId(Joined(getRruleMatch(r, "BYWEEKNO"))),
     byweekday |-> getDateutilIds(getRruleMatch(r, "BYDAY")),
     byhour |-> getDateutilIds(getRruleMatch(r, "BYHOUR")),
     byminute |-> getDateutilIds(getRruleMatch(r, "BYMINUTE")),
     bysecond |-> getDateutilIds(getRruleMatch(r, "BYSECOND"))]

\* dateutil.rrule.rrule( ... ) of the evaluated arguments, then the rest of
\* RepeatedEvent.__init__; listed records that list( self.rule ) was called.
\* The rule expressions modelled carry no INTERVAL, so interval is 1.
CompiledRule(args, until, count, datetime_until, datetime_dtstart) ==
    IF \E a \in DOMAIN args : args[a].exc # ""
    THEN [NoRule EXCEPT !.exc = "KeyError", !.until = until, !.count = count,
                        !.datetime_until = datetime_until]
    ELSE LET rule == [freq |-> args.freq.val,
                      dtstart |-> datetime_dtstart,
                      interval |-> 1,
                      wkst |-> args.wkst.val,
                      count |-> count,
                      until |-> datetime_until,
                      bysetpos |-> args.bysetpos.val,
                      bymonth |-> args.bymonth.val,
                      bymonthday |-> args.bymonthday.val,
                      byyearday |-> args.byyearday.val,
                      byweekno |-> args.byweekno.val,
                      byweekday |-> args.byweekday.val,
                      byhour |-> args.byhour.val,
                      byminute |-> args.byminute.val,
                      bysecond |-> args.bysecond.val]
             listed == until = None /\ count # None /\ count[1] # 0
             last == IF listed
                     THEN LET all == list(rule) IN Some(all[Len(all)])
                     ELSE datetime_until
         IN [exc |-> "", until |-> until, count |-> count, rule |-> Some(rule),
             datetime_until |-> last,
             formatted_until |-> datetimeToZulu(last, "UTC"),
             listed |-> listed]

\* int( self.count ) if self.count else None
countOf(countStr) == IF Truthy(countStr) THEN Some(float(countStr[1])) ELSE None

\* RepeatedEvent.__init__
RepeatedEvent(ruleStr, datetime_dtstart) ==
    IF ruleStr = None THEN NoRule
    ELSE CompiledRule(RuleArgs(ruleStr[1]),
                      getRruleMatch(ruleStr[1], "UNTIL"),
                      countOf(getRruleMatch(ruleStr[1], "COUNT")),
                      standardizeDatetime(getRruleMatch(ruleStr[1], "UNTIL"), "UTC"),
                      datetime_dtstart)

\* isForever with its two return values exchanged
isForever_Inverted(self) == self.until # None \/ (self.count # None /\ self.count[1] # 0)

isForever(self) == ~(self.until # None \/ (self.count # None /\ self.count[1] # 0))

(***************************************************************************)
(* Event and Calendar                                                      *)
(***************************************************************************)
getEventMatch(eventStr, name) == eventStr[name]

\* str.replace( old, new ) for one-character old and new
replace(str, old, new) == [k \in DOMAIN str |-> IF str[k] = old THEN new ELSE str[k]]

\* list( eventRuleset ): the rrule's occurrences that the exrule does not yield
\* and that are no exdate, in the rrule's order (dateutil.rrule.rruleset)
rrulesetList(ruleset) ==
    IF ruleset.rrule = None THEN <<>>
    ELSE LET excluded(t) ==
                 \/ ruleset.exrule # None /\ Yields(ruleset.exrule[1], t)
                 \/ \E k \in DOMAIN ruleset.exdate : ruleset.exdate[k] = t
             kept(t) == ~excluded(t)
         IN SelectSeq(list(ruleset.rrule[1]), kept)

\* derivedDuration where a DURATION that was given is kept
derivedDuration_DurationKept(dtend, datetime_dtstart, datetime_dtend, parsed_duration) ==
    IF dtend # None /\ parsed_duration = 0 THEN datetime_dtend[1] - datetime_dtstart[1]
    ELSE parsed_duration

\* self.datetime_duration once Event.__init__ returns: the parsed DURATION,
\* overwritten by dtend - dtstart when DTEND is present
derivedDuration(dtend, datetime_dtstart, datetime_dtend, parsed_duration) ==
    IF dtend # None THEN datetime_dtend[1] - datetime_dtstart[1]
    ELSE parsed_duration

\* Event.__init__ up to formatted_dtend; exc is "" when no statement raised.
\* datetime_dtend is None where the code leaves the attribute unset, which the
\* read of self.datetime_dtend for formatted_dtend answers with AttributeError.
EventTimes(eventStr, defaultTimezone) ==
    LET dtstart == getEventMatch(eventStr, "DTSTART")
        dtend == getEventMatch(eventStr, "DTEND")
        duration == getEventMatch(eventStr, "DURATION")
        timezone == IF dtstart[1].kind = "tzid" THEN dtstart[1].tzid ELSE defaultTimezone
        exdates == getEventMatch(eventStr, "EXDATE")
        exdate == [k \in DOMAIN exdates |-> standardizeDatetime(Some(exdates[k]), timezone)[1]]
        datetime_dtstart == standardizeDatetime(dtstart, timezone)
        parsed_duration == parse(IF Truthy(duration) THEN duration[1] ELSE <<>>)
        datetime_dtend ==
            IF dtend # None THEN standardizeDatetime(dtend, timezone)
            ELSE IF Truthy(duration) THEN Some(datetime_dtstart[1] + parsed_duration)
            ELSE None
    IN [exc |-> IF dtend = None /\ ~Truthy(duration) THEN "AttributeError" ELSE "",
        summary |-> replace(getEventMatch(eventStr, "SUMMARY"), "\"", "'"),
        dtstart |-> dtstart,
        dtend |-> dtend,
        duration |-> duration,
        rrule |-> getEventMatch(eventStr, "RRULE"),
        exrule |-> getEventMatch(eventStr, "EXRULE"),
        timezone |-> timezone,
        exdate |-> exdate,
        datetime_dtstart |-> datetime_dtstart,
        datetime_duration |-> derivedDuration(dtend, datetime_dtstart, datetime_dtend,
                                              parsed_duration),
        datetime_dtend |-> datetime_dtend,
        formatted_dtstart |-> datetimeToZulu(datetime_dtstart, timezone),
        formatted_dtend |-> datetimeToZulu(datetime_dtend, timezone),
        repeatedEvent |-> NoRule,
        excludedEvent |-> NoRule,
        eventRuleset |-> [rrule |-> None, exrule |-> None, exdate |-> <<>>]]

\* self.repeatedEvent = RepeatedEvent( self.rrule, self )
WithRepeatedEvent(self) ==
    IF self.exc # "" THEN self
    ELSE [self EXCEPT !.repeatedEvent = RepeatedEvent(self.rrule, self.datetime_dtstart)]

\* self.excludedEvent = RepeatedEvent( self.exrule, self )
WithExcludedEvent(self) ==
    IF self.exc # "" \/ self.repeatedEvent.exc # "" THEN self
    ELSE [self EXCEPT !.excludedEvent = RepeatedEvent(self.exrule, self.datetime_dtstart)]

\* rruleset without the loop over self.exdate
rruleset_NoExdate(rule, exrule, exdate) == [rrule |-> rule, exrule |-> exrule, exdate |-> <<>>]

\* dateutil.rrule.rruleset() after the calls of rrule(), exrule() and exdate()
rruleset(rule, exrule, exdate) == [rrule |-> rule, exrule |-> exrule, exdate |-> exdate]

\* self.eventRuleset, of the rules that were compiled and the exdates
WithEventRuleset(self) ==
    [self EXCEPT
        !.exc = IF self.exc # "" THEN self.exc
                ELSE IF self.repeatedEvent.exc # "" THEN self.repeatedEvent.exc
                ELSE self.excludedEvent.exc,
        !.eventRuleset = rruleset(self.repeatedEvent.rule, self.excludedEvent.rule,
                                  self.exdate)]

\* Event.__init__; exc is "" when the constructor returns.
Event(eventStr, defaultTimezone) ==
    WithEventRuleset(WithExcludedEvent(WithRepeatedEvent(
        EventTimes(eventStr, defaultTimezone))))

doesRepeat(self) == self.rrule # None

isAllDay(self) ==
    IF self.dtstart[1].kind = "date" THEN TRUE
    ELSE IF self.dtend = None /\ ~Truthy(self.duration) THEN TRUE
    ELSE FALSE

(***************************************************************************)
(* import_ics_timew                                                        *)
(***************************************************************************)
RECURSIVE join(_, _)
join(sep, items) ==
    IF items = <<>> THEN <<>>
    ELSE IF Len(items) = 1 THEN items[1]
    ELSE items[1] \o sep \o join(sep, Tail(items))

passedTagsStr(args) == join(<<" ">>, [k \in DOMAIN args |-> <<"\"">> \o args[k] \o <<"\"">>])

toTimewEntry(startTimeStr, endTimeStr, tags) ==
    [start |-> startTimeStr, end |-> endTimeStr, tags |-> tags]

eventTags(event, args) == <<"\"">> \o event.summary \o <<"\"", " ">> \o passedTagsStr(args)

\* the entries of the loop over list( event.eventRuleset )
occurrenceEntries(dates, event, args) ==
    [k \in DOMAIN dates |->
        toTimewEntry(datetimeToZulu(Some(dates[k]), event.timezone),
                     datetimeToZulu(Some(dates[k] + event.datetime_duration), event.timezone),
                     eventTags(event, args))]

\* eventEntries with doesRepeat() asked before isAllDay()
eventEntries_RepeatFirst(event, args) ==
    IF doesRepeat(event)
    THEN IF ~isForever(event.repeatedEvent)
         THEN occurrenceEntries(rrulesetList(event.eventRuleset), event, args)
         ELSE <<>>
    ELSE IF isAllDay(event) THEN <<>>
    ELSE <<toTimewEntry(event.formatted_dtstart, event.formatted_dtend,
                        eventTags(event, args))>>

\* the entries one pass of the conversion loop's body appends for event
eventEntries(event, args) ==
    IF isAllDay(event) THEN <<>>
    ELSE IF doesRepeat(event)
         THEN IF ~isForever(event.repeatedEvent)
              THEN occurrenceEntries(rrulesetList(event.eventRuleset), event, args)
              ELSE <<>>
    ELSE <<toTimewEntry(event.formatted_dtstart, event.formatted_dtend,
                        eventTags(event, args))>>

\* whether the pass calls list( event.eventRuleset )
listsRuleset(event) ==
    ~isAllDay(event) /\ doesRepeat(event) /\ ~isForever(event.repeatedEvent)

(***************************************************************************)
(* Inputs                                                                  *)
(***************************************************************************)
MaxEvents == 2
MaxRepeating == 1
Span == 4

Token(kind, tzid, t, z) == [kind |-> kind, tzid |-> tzid, t |-> t, z |-> z]

\* Monday 10:00
T0 == 10 * Hour

Rule(freq, until, count, byday) ==
    [FREQ |-> freq, UNTIL |-> until, COUNT |-> count, BYSECOND |-> None,
     BYMINUTE |-> None, BYHOUR |-> None, BYDAY |-> byday, BYMONTHDAY |-> None,
     BYYEARDAY |-> None, BYWEEKNO |-> None, BYMONTH |-> None, BYSETPOS |-> None,
     WKST |-> None]

Block(summary, dtstart, dtend, duration, rrule, exrule, exdate) ==
    [SUMMARY |-> summary, DTSTART |-> Some(dtstart), DTEND |-> dtend,
     DURATION |-> duration, RRULE |-> rrule, EXRULE |-> exrule, EXDATE |-> exdate]

\* DTSTART:..., DTSTART;VALUE=DATE:... and DTSTART;TZID=America/New_York:...
StartTokens ==
    {Token("plain", "", T0, FALSE), Token("date", "", 0, FALSE),
     Token("tzid", "America/New_York", T0, FALSE)}

\* the DTEND written like start, one hour (VALUE=DATE: one day) later
EndAfter(start) ==
    [start EXCEPT !.t = IF start.kind = "date" THEN start.t + Day ELSE start.t + Hour]

PT1H30M == <<"P", "T", "1", "H", "3", "0", "M">>
P1DT12H == <<"P", "1", "D", "T", "1", "2", "H">>

\* the event blocks of a calendar whose events differ in how they are classified
Blocks ==
    {Block(<<"\"", "a", "\"">>, start, dtend, duration, rrule, None, <<>>) :
        start \in StartTokens,
        dtend \in {None},
        duration \in {None, Some(PT1H30M)},
        rrule \in {None,
                   Some(Rule(Some("DAILY"), None, None, None)),
                   Some(Rule(Some("DAILY"), None, Some(<<"2">>), None)),
                   Some(Rule(Some("WEEKLY"), Some(Token("plain", "", T0 + Week, TRUE)),
                             None, None))}}
    \cup
    {Block(<<"\"", "a", "\"">>, start, Some(EndAfter(start)), duration, rrule, None, <<>>) :
        start \in StartTokens,
        duration \in {None, Some(P1DT12H)},
        rrule \in {None,
                   Some(Rule(Some("DAILY"), None, None, None)),
                   Some(Rule(Some("DAILY"), None, Some(<<"2">>), None)),
                   Some(Rule(Some("WEEKLY"), Some(Token("plain", "", T0 + Week, TRUE)),
                             None, None))}}

PT1H == <<"P", "T", "1", "H">>

\* the event blocks of a calendar of repeating events with exclusions
RepeatingBlocks ==
    {Block(<<"b">>, start, None, Some(PT1H), Some(rrule), exrule, exdate) :
        start \in {Token("plain", "", T0, FALSE), Token("plain", "", T0, TRUE)},
        rrule \in {Rule(Some("DAILY"), None, Some(<<"3">>), None),
                   Rule(Some("DAILY"), Some(Token("plain", "", T0 + 2 * Day + 2 * Hour, TRUE)),
                        None, None),
                   Rule(Some("DAILY"), Some(Token("plain", "", T0 + 2 * Hour, TRUE)),
                        None, None),
                   Rule(Some("DAILY"), Some(Token("plain", "", T0 - Day, TRUE)),
                        None, None),
                   Rule(Some("WEEKLY"), None, Some(<<"3">>), Some(<<"MO", "WE">>))},
        exrule \in {None,
                    Some(Rule(Some("WEEKLY"), None, None, None)),
                    Some(Rule(Some("DAILY"), None, Some(<<"1">>), None)),
                    Some(Rule(Some("DAILY"), None, None, Some(<<"WE">>)))},
        exdate \in {<<>>,
                    <<Token("plain", "", T0 + Day, FALSE)>>,
                    <<Token("plain", "", T0 + 2 * Day, TRUE), Token("plain", "", T0, FALSE)>>}}

\* the rule expressions RepeatedEvent is constructed from on its own
RuleExprs ==
    [FREQ : {Some("DAILY"), Some("WEEKLY"), Some("FORTNIGHTLY")},
     UNTIL : {None, Some(Token("plain", "", T0 + Week, TRUE))},
     COUNT : {None, Some(<<"0">>), Some(<<"2">>)},
     BYSECOND : {None, Some(<<"0">>)},
     BYMINUTE : {None, Some(<<"30">>)},
     BYHOUR : {None, Some(<<"9", "17">>)},
     BYDAY : {None, Some(<<"MO", "WE">>), Some(<<"2FR">>), Some(<<"XX">>)},
     BYMONTHDAY : {None, Some(<<"1", "15">>)},
     BYYEARDAY : {None, Some(<<"100">>)},
     BYWEEKNO : {None, Some(<<"20">>)},
     BYMONTH : {None, Some(<<"1">>)},
     BYSETPOS : {None, Some(<<"-1">>)},
     WKST : {None, Some("SU")}]

\* the UTC-suffixed tokens within Span hours of New York's fall-back, by half hours
UtcTokens ==
    {Token("plain", "", FallBack + k * (30 * 60), TRUE) : k \in (-(2 * Span))..(2 * Span)}

(***************************************************************************)
(* The program: Calendar( calString ) constructs the events in document    *)
(* order, then the conversion loop visits them and the entries are written. *)
(***************************************************************************)
VARIABLES
    pc,               \* "parse", "convert", "done", "raised", "diverged"
    defaultTimezone,  \* Calendar.defaultTimezone
    args,             \* parsedArgs.args[1:], the tags passed
    events,           \* Calendar.events
    raised,           \* the exception that ended the run, with the block read
    idx,              \* the conversion loop's position in cal.events
    entries,          \* entries
    trace,            \* per pass of the loop: whether it listed the ruleset,
                      \* the dates listed and the entries it appended
    rc,               \* one RepeatedEvent construction: input and result
    rt                \* one standardizeDatetime / datetimeToZulu round trip

vars == <<pc, defaultTimezone, args, events, raised, idx, entries, trace, rc, rt>>

IdleRc == [ruleStr |-> None, dtstart |-> None, out |-> None]
IdleRt == [zone |-> "UTC", timeStr |-> None, naive |-> None, zulu |-> None]

InitCalendar(zones, tags) ==
    /\ pc = "parse"
    /\ defaultTimezone \in zones
    /\ args \in tags
    /\ events = <<>>
    /\ raised = None
    /\ idx = 0
    /\ entries = <<>>
    /\ trace = <<>>
    /\ rc = IdleRc
    /\ rt = IdleRt

\* self.events.append( Event( eventStr, self ) ), or the exception it raises
Constructed(eventStr, event) ==
    IF event.exc = ""
    THEN /\ events' = Append(events, event)
         /\ UNCHANGED <<pc, raised>>
    ELSE /\ pc' = "raised"
         /\ raised' = Some([exc |-> event.exc, eventStr |-> eventStr])
         /\ UNCHANGED events

\* Calendar.__init__: the next VEVENT block of the document is constructed
ReadEvent(blocks, max) ==
    /\ pc = "parse"
    /\ Len(events) < max
    /\ \E eventStr \in blocks : Constructed(eventStr, Event(eventStr, defaultTimezone))
    /\ UNCHANGED <<defaultTimezone, args, idx, entries, trace, rc, rt>>

\* Calendar.__init__ returns: the document holds no further block
EndOfCalendar ==
    /\ pc = "parse"
    /\ pc' = "convert"
    /\ idx' = 1
    /\ UNCHANGED <<defaultTimezone, args, events, raised, entries, trace, rc, rt>>

\* the pass appends its entries and the loop moves on
Appended(new, listed, dates) ==
    /\ entries' = entries \o new
    /\ trace' = Append(trace, [listed |-> listed, dates |-> dates,
                               first |-> Len(entries) + 1, n |-> Len(new)])
    /\ idx' = idx + 1
    /\ UNCHANGED pc

\* one pass of: for event in cal.events
ConvertEvent ==
    /\ pc = "convert"
    /\ idx <= Len(events)
    /\ IF listsRuleset(events[idx]) /\ ~Bounded(events[idx].eventRuleset.rrule[1])
       THEN \* list() of an endless rule does not return
            /\ pc' = "diverged"
            /\ trace' = Append(trace, [listed |-> TRUE, dates |-> <<>>,
                                       first |-> Len(entries) + 1, n |-> 0])
            /\ UNCHANGED <<idx, entries>>
       ELSE Appended(eventEntries(events[idx], args),
                     listsRuleset(events[idx]),
                     IF listsRuleset(events[idx])
                     THEN rrulesetList(events[idx].eventRuleset) ELSE <<>>)
    /\ UNCHANGED <<defaultTimezone, args, events, raised, rc, rt>>

\* the loop is over: outFile.write( '\n'.join( entries ) )
WriteEntries ==
    /\ pc = "convert"
    /\ idx > Len(events)
    /\ pc' = "done"
    /\ UNCHANGED <<defaultTimezone, args, events, raised, idx, entries, trace, rc, rt>>

Init == InitCalendar({"UTC"}, {<<>>, << <<"w">>, <<"x", "y">> >>})

Next ==
    \/ ReadEvent(Blocks, MaxEvents)
    \/ EndOfCalendar
    \/ ConvertEvent
    \/ WriteEntries

Spec == Init /\ [][Next]_vars

(***************************************************************************)
(* A calendar of repeating events, in each zone                            *)
(***************************************************************************)
InitRepeating == InitCalendar(Zones, {<< <<"w">> >>})

NextRepeating ==
    \/ ReadEvent(RepeatingBlocks, MaxRepeating)
    \/ EndOfCalendar
    \/ ConvertEvent
    \/ WriteEntries

SpecRepeating == InitRepeating /\ [][NextRepeating]_vars

(***************************************************************************)
(* RepeatedEvent( ruleStr, event ) on its own                              *)
(***************************************************************************)
IdleCalendar ==
    /\ pc = "idle"
    /\ defaultTimezone = "UTC"
    /\ args = <<>>
    /\ events = <<>>
    /\ raised = None
    /\ idx = 0
    /\ entries = <<>>
    /\ trace = <<>>

InitRule ==
    /\ IdleCalendar
    /\ rc \in [ruleStr : {Some(r) : r \in RuleExprs}, dtstart : {Some(T0)}, out : {None}]
    /\ rt = IdleRt

ConstructRepeatedEvent ==
    /\ rc.ruleStr # None
    /\ rc.out = None
    /\ rc' = [rc EXCEPT !.out = Some(RepeatedEvent(rc.ruleStr, rc.dtstart))]
    /\ UNCHANGED <<pc, defaultTimezone, args, events, raised, idx, entries, trace, rt>>

NextRule == ConstructRepeatedEvent

SpecRule == InitRule /\ [][NextRule]_vars

(***************************************************************************)
(* standardizeDatetime then datetimeToZulu, of a UTC-suffixed token        *)
(***************************************************************************)
InitTime ==
    /\ IdleCalendar
    /\ rc = IdleRc
    /\ rt \in [zone : Zones, timeStr : {Some(t) : t \in UtcTokens}, naive : {None},
                zulu : {None}]

Standardize ==
    /\ rt.timeStr # None
    /\ rt.naive = None
    /\ rt' = [rt EXCEPT !.naive = standardizeDatetime(rt.timeStr, rt.zone)]
    /\ UNCHANGED <<pc, defaultTimezone, args, events, raised, idx, entries, trace, rc>>

ToZulu ==
    /\ rt.naive # None
    /\ rt.zulu = None
    /\ rt' = [rt EXCEPT !.zulu = datetimeToZulu(rt.naive, rt.zone)]
    /\ UNCHANGED <<pc, defaultTimezone, args, events, raised, idx, entries, trace, rc>>

NextTime == Standardize \/ ToZulu

SpecTime == InitTime /\ [][NextTime]_vars


(***************************************************************************)
(* Properties                                                              *)
(***************************************************************************)
\* the entries the k-th pass of the conversion loop appended
Segment(k) == SubSeq(entries, trace[k].first, trace[k].first + trace[k].n - 1)

\* the tags of an entry: the quoted summary, then the quoted tags passed
ExpectedTags(event) ==
    <<"\"">> \o event.summary \o <<"\"">> \o <<" ">>
        \o join(<<" ">>, [j \in DOMAIN args |-> <<"\"">> \o args[j] \o <<"\"">>])

\* the RRULE of event names neither UNTIL nor COUNT
Unbounded(event) == event.rrule[1].UNTIL = None /\ event.rrule[1].COUNT = None

\* C1: every pass of the conversion loop classifies its event in the order
\* all-day, repeating, single: an all-day event appends nothing; otherwise an
\* event with an RRULE appends nothing when the rule is unbounded and else one
\* entry [date, date + duration] per date of its ruleset; otherwise the event
\* appends the one entry [start, end]; every entry carries the summary and then
\* the tags passed.
C1_Classification ==
    \A k \in DOMAIN trace :
        LET event == events[k]
            seg == Segment(k)
            allDay == \/ event.dtstart[1].kind = "date"
                      \/ event.dtend = None /\ event.duration = None
        IN /\ pc # "diverged"
           /\ \A j \in DOMAIN seg : seg[j].tags = ExpectedTags(event)
           /\ IF allDay THEN seg = <<>>
              ELSE IF event.rrule # None
                   THEN IF Unbounded(event) THEN seg = <<>>
                        ELSE LET occ == rrulesetList(event.eventRuleset)
                             IN /\ Len(seg) = Len(occ)
                                /\ \A j \in DOMAIN occ :
                                      /\ seg[j].start =
                                            datetimeToZulu(Some(occ[j]), event.timezone)
                                      /\ seg[j].end =
                                            datetimeToZulu(Some(occ[j] + event.datetime_duration),
                                                           event.timezone)
              ELSE /\ Len(seg) = 1
                   /\ seg[1].start = event.formatted_dtstart
                   /\ seg[1].end = event.formatted_dtend

\* an all-day event that has a bounded RRULE appended nothing, and a repeating
\* event after it appended two entries that carry the tags passed
C1_Witness ==
    /\ Len(trace) = 2
    /\ events[1].dtstart[1].kind = "date"
    /\ events[1].rrule # None
    /\ ~Unbounded(events[1])
    /\ trace[1].n = 0
    /\ events[2].dtstart[1].kind # "date"
    /\ trace[2].n = 2
    /\ args # <<>>

\* C2: constructing an Event from a block with DTSTART;VALUE=DATE and neither
\* DTEND nor DURATION succeeds, with or without an RRULE.
C2_DateOnlyEventConstructs ==
    raised # None =>
        ~(/\ raised[1].eventStr.DTSTART[1].kind = "date"
          /\ raised[1].eventStr.DTEND = None
          /\ raised[1].eventStr.DURATION = None)

\* C3: isForever() is true exactly when the rule expression holds neither an
\* UNTIL nor a COUNT field, whatever their values.
C3_ForeverIffNoBound ==
    (rc.out # None /\ rc.out[1].exc = "") =>
        (isForever(rc.out[1]) <=>
            (rc.ruleStr[1].UNTIL = None /\ rc.ruleStr[1].COUNT = None))

\* C4: the dates listed from an event's ruleset hold no date the EXRULE yields
\* or an EXDATE names, hold every other date of the RRULE, and are in the
\* RRULE's ascending order.
C4_Exclusions ==
    \A k \in DOMAIN trace :
        trace[k].listed =>
            LET event == events[k]
                base == list(event.repeatedEvent.rule[1])
                dates == trace[k].dates
                excluded(t) ==
                    \/ /\ event.excludedEvent.rule # None
                       /\ Yields(event.excludedEvent.rule[1], t)
                    \/ \E j \in DOMAIN event.exdate : event.exdate[j] = t
            IN /\ \A j \in DOMAIN dates : ~excluded(dates[j])
               /\ \A j \in DOMAIN dates : \E i \in DOMAIN base : base[i] = dates[j]
               /\ \A i \in DOMAIN base :
                     ~excluded(base[i]) => \E j \in DOMAIN dates : dates[j] = base[i]
               /\ \A i, j \in DOMAIN dates : i < j => dates[i] < dates[j]
               /\ trace[k].n = Len(dates)

\* an event whose EXRULE and EXDATE lines removed some, not all, of its dates
C4_Witness ==
    \E k \in DOMAIN trace :
        /\ trace[k].listed
        /\ events[k].excludedEvent.rule # None
        /\ events[k].exdate # <<>>
        /\ \E j \in DOMAIN events[k].exdate :
              \E i \in DOMAIN list(events[k].repeatedEvent.rule[1]) :
                  /\ list(events[k].repeatedEvent.rule[1])[i] = events[k].exdate[j]
                  /\ ~Yields(events[k].excludedEvent.rule[1], events[k].exdate[j])
        /\ Len(trace[k].dates) > 0
        /\ Len(trace[k].dates) + 1 < Len(list(events[k].repeatedEvent.rule[1]))

\* C5: standardizeDatetime then datetimeToZulu gives back the instant of the
\* UTC-suffixed token, in every zone.
C5_RoundTrip == rt.zulu # None => rt.zulu[1] = rt.timeStr[1].t

\* C6: an event whose RRULE has an UNTIL earlier than the event's start, as
\* instants, has no occurrence, so its pass appends no entry.
C6_UntilBeforeStart ==
    \A k \in DOMAIN trace :
        (/\ events[k].rrule[1].UNTIL # None
         /\ events[k].rrule[1].UNTIL[1].t < events[k].formatted_dtstart[1])
            => trace[k].n = 0

NumericFields ==
    {"BYSECOND", "BYMINUTE", "BYHOUR", "BYMONTHDAY", "BYYEARDAY", "BYWEEKNO", "BYMONTH",
     "BYSETPOS"}

\* the argument of dateutil.rrule.rrule a field of the expression is meant for
Param(f) ==
    CASE f = "BYSECOND" -> "bysecond" [] f = "BYMINUTE" -> "byminute"
      [] f = "BYHOUR" -> "byhour" [] f = "BYDAY" -> "byweekday"
      [] f = "BYMONTHDAY" -> "bymonthday" [] f = "BYYEARDAY" -> "byyearday"
      [] f = "BYWEEKNO" -> "byweekno" [] f = "BYMONTH" -> "bymonth"
      [] f = "BYSETPOS" -> "bysetpos"

\* the integer a numeric item spells
IntItem(item) ==
    CASE item = "0" -> 0 [] item = "1" -> 1 [] item = "9" -> 9 [] item = "15" -> 15
      [] item = "17" -> 17 [] item = "20" -> 20 [] item = "30" -> 30
      [] item = "100" -> 100 [] item = "-1" -> -1

\* the weekday and the ordinal (0: none) a BYDAY item spells
DayItem(item) ==
    CASE item = "MO" -> [weekday |-> 0, n |-> 0]
      [] item = "WE" -> [weekday |-> 2, n |-> 0]
      [] item = "2FR" -> [weekday |-> 4, n |-> 2]

WellFormed(r) ==
    /\ r.FREQ \in {Some("DAILY"), Some("WEEKLY")}
    /\ r.BYDAY # None => \A k \in DOMAIN r.BYDAY[1] : r.BYDAY[1][k] \in {"MO", "WE", "2FR"}

\* C7: compiling a rule with well-formed by-field values succeeds, the numeric
\* lists parse to their integers and each BYDAY value to its weekday with its
\* ordinal.
C7_ByFieldsParse ==
    (rc.out # None /\ WellFormed(rc.ruleStr[1])) =>
        /\ rc.out[1].exc = ""
        /\ \A f \in NumericFields :
              rc.ruleStr[1][f] # None =>
                  LET got == rc.out[1].rule[1][Param(f)]
                      items == rc.ruleStr[1][f][1]
                  IN /\ got # None
                     /\ IF f = "BYWEEKNO" THEN got[1] = IntItem(items[1])
                        ELSE got[1] = [k \in DOMAIN items |-> IntItem(items[k])]
        /\ rc.ruleStr[1].BYDAY # None =>
              LET got == rc.out[1].rule[1].byweekday
                  items == rc.ruleStr[1].BYDAY[1]
              IN /\ got # None
                 /\ \A k \in DOMAIN items :
                       /\ got[1][k] = DayItem(items[k]).weekday
                       /\ DayItem(items[k]).n = 0

\* C8: a rule that compiles has applied every frequency, week-start and
\* by-field value of its expression; BYSETPOS is read from BYSETPOS alone.
C8_NoFieldDropped ==
    (rc.out # None /\ rc.out[1].exc = "") =>
        LET r == rc.ruleStr[1]
            rule == rc.out[1].rule[1]
        IN /\ rule.freq = Some(dateutil_ids[r.FREQ[1]])
           /\ r.WKST # None => rule.wkst = Some(dateutil_ids[r.WKST[1]])
           /\ \A f \in NumericFields \cup {"BYDAY"} : r[f] # None => rule[Param(f)] # None
           /\ r.BYSETPOS = None => rule.bysetpos = None

\* C9: list() is called on a rule only when its expression has a COUNT, and on
\* an event's ruleset only when its RRULE has an UNTIL or a COUNT; an event
\* whose RRULE has neither is never listed and appends no entry.
C9_BoundedEnumeration ==
    /\ pc # "diverged"
    /\ \A k \in DOMAIN events :
          /\ events[k].repeatedEvent.listed => events[k].rrule[1].COUNT # None
          /\ events[k].excludedEvent.listed => events[k].exrule[1].COUNT # None
          /\ (events[k].rrule # None /\ Unbounded(events[k]))
                => ~events[k].repeatedEvent.listed
    /\ \A k \in DOMAIN trace :
          /\ trace[k].listed => (events[k].rrule # None /\ ~Unbounded(events[k]))
          /\ (events[k].rrule # None /\ Unbounded(events[k]))
                => (~trace[k].listed /\ trace[k].dates = <<>> /\ trace[k].n = 0)

\* the loop passed an event with a duration whose RRULE is unbounded, and listed
\* the ruleset of another whose RRULE has a COUNT that construction listed too
C9_Witness ==
    /\ Len(trace) = 2
    /\ events[1].rrule # None
    /\ Unbounded(events[1])
    /\ ~isAllDay(events[1])
    /\ trace[2].listed
    /\ events[2].repeatedEvent.listed
    /\ trace[2].n = 2

\* the seconds a period expression of the blocks spells
PeriodSeconds(periodStr) ==
    CASE periodStr = PT1H30M -> Hour + 30 * 60
      [] periodStr = P1DT12H -> Day + 12 * Hour
      [] periodStr = PT1H -> Hour

\* C10: every constructed event with a DTEND or a DURATION has end = start +
\* duration; with a DTEND, end is the DTEND as written and duration is end -
\* start, whatever DURATION says; with a DURATION alone, duration is the period
\* and end is start + duration.
C10_EndStartDuration ==
    \A k \in DOMAIN events :
        LET event == events[k]
        IN (event.dtend # None \/ event.duration # None) =>
              /\ event.datetime_dtend # None
              /\ event.datetime_dtend[1] =
                    event.datetime_dtstart[1] + event.datetime_duration
              /\ event.dtend # None =>
                    /\ event.datetime_dtend[1] = event.dtend[1].t
                    /\ event.datetime_duration =
                          event.dtend[1].t - event.dtstart[1].t
              /\ event.dtend = None =>
                    /\ event.datetime_duration = PeriodSeconds(event.duration[1])
                    /\ event.datetime_dtend[1] =
                          event.dtstart[1].t + PeriodSeconds(event.duration[1])

\* a constructed event whose DTEND and DURATION disagree, and one with a
\* DURATION alone
C10_Witness ==
    /\ Len(events) = 2
    /\ events[1].dtend # None
    /\ events[1].duration # None
    /\ PeriodSeconds(events[1].duration[1]) # events[1].datetime_duration
    /\ events[2].dtend = None
    /\ events[2].duration # None

====
